---------------------------- MODULE Spec2Model ----------------------------
(***************************************************************************)
(* Model of the cafemp playback engine (src/src/video_player.cpp): the     *)
(* audio ring buffer shared between the decode context and the SDL audio   *)
(* callback, the decode dispatch loop, scrub, and teardown.                *)
(*                                                                         *)
(* Two execution contexts are modelled.  The decode context is at pcD; it  *)
(* is "idle" between calls of the exposed operations.  The audio callback  *)
(* context is at pcA.  A label names the statement the context executes    *)
(* next.  Statements inside a critical section are separate steps only     *)
(* where an access of the other context that takes no lock can fall        *)
(* between them.                                                           *)
(***************************************************************************)
EXTENDS Integers, Sequences, FiniteSets

\* Capacity of the ring buffer, scaled down (config.hpp is not in src/).
RING_BUFFER_SIZE == 3
\* Largest resampled chunk (data_size) one decoded audio frame yields.
MaxChunk == 2
\* Largest len the audio device asks of the callback.
MaxLen == 2
\* Audio frames one packet (or the final flush) makes the decoder emit.
MaxFrames == 1
\* Number of bytes of the numbered stream the ring buffer operations are fed
\* with in SpecRing.
MaxProduced == 8
\* Length of the long file, distance of two video frames and of two
\* keyframes, in seconds.
Duration == 20
FRAME_DT == 5
KEY_INT == 5
\* The pacing controller: ticks_per_frame, the longest stay of the host
\* between two update calls, the largest cost of decoding one frame, the
\* frames one video packet yields, and the end of the observed clock.
TicksPerFrame == 3
MaxHostTicks == 2
MaxCost == 1
MaxVideoFrames == 2
MaxTicks == 12

\* The media files the user can select: a short clip with audio packets and
\* a long one whose audio stream carries no packet.
Files == { [dur |-> FRAME_DT, audio |-> TRUE],
           [dur |-> Duration, audio |-> FALSE] }

ScrubDeltas == {-10, 0, 10}

NULL == "NULL"
OPEN == "OPEN"

VARIABLES
    ring_buffer, ring_buffer_write_pos, ring_buffer_read_pos, ring_buffer_fill,
    audio_mutex,
    app_state, playing_video, audio_paused, current_pts_seconds,
    fmt_ctx, audio_codec_ctx, video_codec_ctx, swr_ctx, pkt, frame,
    current_frame_info,
    file, demux_pos, adec_frames, produced,
    pcD, caller, temp_buffer,
    pcA, cb_len, bytes_to_copy, cb_tmp, stream,
    h_fill0, h_rp0, h_clean, h_pushed, h_pulled, h_stale,
    h_scrubs, h_pts0, h_cleaned,
    now, last_frame_ticks, pcP, vframes,
    h_present, h_recorded, h_zero_cost, h_gap,
    h_seek, h_order, h_skipped

ringVars == <<ring_buffer, ring_buffer_write_pos, ring_buffer_read_pos,
              ring_buffer_fill>>
resVars == <<fmt_ctx, audio_codec_ctx, video_codec_ctx, swr_ctx, pkt, frame,
             current_frame_info>>
sessVars == <<app_state, playing_video, audio_paused, current_pts_seconds>>
decVars == <<file, demux_pos, adec_frames, produced>>
pcDVars == <<pcD, caller, temp_buffer>>
cbVars == <<pcA, cb_len, bytes_to_copy, cb_tmp, stream>>
histRing == <<h_clean, h_pushed, h_pulled, h_stale>>
histCb == <<h_fill0, h_rp0>>
histSess == <<h_scrubs, h_pts0, h_cleaned>>
histScrub == <<h_seek, h_order>>
paceVars == <<now, last_frame_ticks, pcP, vframes,
              h_present, h_recorded, h_zero_cost, h_gap>>
auxVars == <<paceVars, histScrub, h_skipped>>

vars == <<ringVars, audio_mutex, sessVars, resVars, decVars, pcDVars, cbVars,
          histRing, histCb, histSess, paceVars, histScrub, h_skipped>>

Cells == 0 .. (RING_BUFFER_SIZE - 1)

\* The value of an uninitialised byte of the device's buffer, and of a byte
\* of decoded audio; 0 is silence.
GARBAGE == -1
\* No video frame has been presented yet.
NoTime == 0 - 1
AUDIO == 1

-----------------------------------------------------------------------------
(* Pure helpers of the ring buffer arithmetic.                             *)


\* Faulty variant: the requested count is used even when less is buffered.
BytesToCopyRequested(len, fill) == len
\* int bytes_to_copy = (len > ring_buffer_fill) ? ring_buffer_fill : len;
BytesToCopy(len, fill) == IF len > fill THEN fill ELSE len


\* Faulty variant: the copy is never split at the end of the array.
FirstChunkNoSplit(pos, n) == n
\* int first_chunk = RING_BUFFER_SIZE - pos;
\* if (first_chunk > n) first_chunk = n;
FirstChunk(pos, n) ==
    IF RING_BUFFER_SIZE - pos > n THEN n ELSE RING_BUFFER_SIZE - pos

\* memcpy(buf + dst, src + off, n) into the backing array; a byte that would
\* fall outside the array is not stored in it.
MemcpyIn(buf, dst, src, off, n) ==
    [j \in Cells |-> IF j >= dst /\ j < dst + n THEN src[off + (j - dst) + 1]
                     ELSE buf[j]]

\* memcpy(out + off, buf + from, n) out of the backing array.
MemcpyOut(out, off, buf, from, n) ==
    [i \in DOMAIN out |->
        IF i > off /\ i <= off + n
        THEN (IF from + (i - off - 1) \in Cells THEN buf[from + (i - off - 1)]
              ELSE GARBAGE)
        ELSE out[i]]

\* SDL_memset(stream + from, 0, n)
Memset0(out, from, n) ==
    [i \in DOMAIN out |-> IF i > from /\ i <= from + n THEN 0 ELSE out[i]]

\* The two copies of play_audio_frame.
RingStore(buf, wp, data) ==
    LET n == Len(data)
        fc == FirstChunk(wp, n)
    IN  MemcpyIn(MemcpyIn(buf, wp, data, 0, fc), 0, data, fc, n - fc)

\* The two copies of audio_callback.
RingLoad(out, buf, rp, n) ==
    LET fc == FirstChunk(rp, n)
    IN  MemcpyOut(MemcpyOut(out, 0, buf, rp, fc), fc, buf, 0, n - fc)


\* Faulty variant: the chunk is compared with the capacity, not with the
\* free space.
PushFitsCapacity(data_size, fill) == data_size <= RING_BUFFER_SIZE
\* The push guard of play_audio_frame.
PushFits(data_size, fill) == data_size <= RING_BUFFER_SIZE - fill

\* The cursor advance of both operations.
Advance(pos, n) == (pos + n) % RING_BUFFER_SIZE

\* The i-th byte of the audio stream (1-based); 0 is silence.
Sample(i) == i

Alive == pcD # "crashed"

\* av_seek_frame: where the demuxer lands for a target inside the stream.
\* AVSEEK_FLAG_ANY lands on the target itself, AVSEEK_FLAG_BACKWARD on the
\* nearest keyframe at or before it.
SeekLanding(target, flag) ==
    IF flag = "ANY" THEN target ELSE (target \div KEY_INT) * KEY_INT

\* Faulty variant: every seek may land on any frame.
SeekFlagAny(dt) == "ANY"

\* No av_seek_frame call is under way.
NoSeek == [target |-> 0, flag |-> "none"]

\* The flag video_player_scrub passes for dt.
SeekFlag(dt) == IF dt > 0 THEN "ANY" ELSE "BACKWARD"

\* pts of the next video frame the demuxer yields from position pos.
NextFramePts(pos) == ((pos + FRAME_DT - 1) \div FRAME_DT) * FRAME_DT

\* av_read_frame's result is negative: no frame is left before the end.
AtEndOfStream(pos) == NextFramePts(pos) >= file.dur

Clamp(t) == IF t < 0 THEN 0 ELSE IF t > file.dur THEN file.dur ELSE t

\* What swr_convert can leave in temp_buffer: data_size bytes of audio.  The
\* code never looks at a byte's value, so the decode loop's bytes are all
\* AUDIO; SpecRing numbers them instead.
Chunks == { [i \in 1 .. n |-> AUDIO] : n \in 0 .. MaxChunk }

\* Lines 73-82: what play_audio_frame does to the buffer with a chunk.
PushEffect(data) ==
    IF PushFits(Len(data), ring_buffer_fill)
    THEN /\ ring_buffer' = RingStore(ring_buffer, ring_buffer_write_pos, data)
         /\ ring_buffer_write_pos' = Advance(ring_buffer_write_pos, Len(data))
         /\ ring_buffer_fill' = ring_buffer_fill + Len(data)
    ELSE UNCHANGED <<ring_buffer, ring_buffer_write_pos, ring_buffer_fill>>


\* Faulty variant: the shortfall is left as the device handed it over.
ZeroFillMissing(out, n, len) == out
\* Lines 44-46.
ZeroFill(out, n, len) == IF n < len THEN Memset0(out, n, len - n) ELSE out


\* Faulty variant: the loop never sleeps.
SleepTicksNone(elapsed_ticks) == 0

\* Lines 248-250: the ticks the loop sleeps after elapsed_ticks.
SleepTicks(elapsed_ticks) ==
    IF elapsed_ticks < TicksPerFrame THEN TicksPerFrame - elapsed_ticks ELSE 0

\* Faulty variant: the cursors are rewound and the fill counter is forgotten.
RingResetCursorsOnly ==
    /\ ring_buffer_read_pos' = 0
    /\ ring_buffer_write_pos' = 0
    /\ UNCHANGED <<ring_buffer, ring_buffer_fill>>
\* Lines 174-176: the reset.
RingReset ==
    /\ ring_buffer_fill' = 0
    /\ ring_buffer_read_pos' = 0
    /\ ring_buffer_write_pos' = 0
    /\ UNCHANGED ring_buffer

-----------------------------------------------------------------------------
Init ==
    /\ ring_buffer = [j \in Cells |-> 0]
    /\ ring_buffer_write_pos = 0
    /\ ring_buffer_read_pos = 0
    /\ ring_buffer_fill = 0
    /\ audio_mutex = "free"
    /\ app_state = "MENU"
    /\ playing_video = FALSE
    /\ audio_paused = TRUE
    /\ current_pts_seconds = 0
    /\ fmt_ctx = NULL /\ audio_codec_ctx = NULL /\ video_codec_ctx = NULL
    /\ swr_ctx = NULL /\ pkt = NULL /\ frame = NULL
    /\ current_frame_info = NULL
    /\ file = [dur |-> 0, audio |-> FALSE]
    /\ demux_pos = 0 /\ adec_frames = 0 /\ produced = 0
    /\ pcD = "idle" /\ caller = "none" /\ temp_buffer = <<>>
    /\ pcA = "idle" /\ cb_len = 0 /\ bytes_to_copy = 0 /\ cb_tmp = 0
    /\ stream = <<>>
    /\ h_fill0 = 0 /\ h_rp0 = 0
    /\ h_clean = TRUE /\ h_pushed = <<>> /\ h_pulled = <<>> /\ h_stale = 0
    /\ h_scrubs = "none" /\ h_pts0 = 0 /\ h_cleaned = FALSE
    /\ now = 0 /\ last_frame_ticks = 0 /\ pcP = "out" /\ vframes = 0
    /\ h_present = NoTime /\ h_recorded = NoTime
    /\ h_zero_cost = TRUE /\ h_gap = NoTime
    /\ h_seek = NoSeek /\ h_order = <<>>
    /\ h_skipped = "none"

-----------------------------------------------------------------------------
(* The audio callback context: audio_callback, video_player.cpp 30-49.     *)

\* Lines 31-39: the device invokes the callback with an uninitialised buffer
\* of len bytes; it takes the lock, computes bytes_to_copy and copies.
CbBegin(len) ==
    /\ Alive /\ pcA = "idle" /\ ~audio_paused
    /\ audio_mutex = "free"
    /\ audio_mutex' = "audio"
    /\ cb_len' = len
    /\ bytes_to_copy' = BytesToCopy(len, ring_buffer_fill)
    /\ stream' = RingLoad([i \in 1 .. len |-> GARBAGE], ring_buffer,
                          ring_buffer_read_pos,
                          BytesToCopy(len, ring_buffer_fill))
    /\ pcA' = "cb41"
    /\ h_fill0' = ring_buffer_fill /\ h_rp0' = ring_buffer_read_pos
    /\ UNCHANGED <<ringVars, sessVars, resVars, decVars, pcDVars, cb_tmp,
                   histRing, auxVars, histSess>>

\* Line 41, the load of ring_buffer_read_pos.
CbLoadReadPos ==
    /\ Alive /\ pcA = "cb41"
    /\ cb_tmp' = ring_buffer_read_pos
    /\ pcA' = "cb41s"
    /\ UNCHANGED <<ringVars, audio_mutex, sessVars, resVars, decVars, pcDVars,
                   cb_len, bytes_to_copy, stream, histRing, auxVars, histCb,
                   histSess>>

\* Line 41, the store.
CbStoreReadPos ==
    /\ Alive /\ pcA = "cb41s"
    /\ ring_buffer_read_pos' = Advance(cb_tmp, bytes_to_copy)
    /\ pcA' = "cb42"
    /\ UNCHANGED <<ring_buffer, ring_buffer_write_pos, ring_buffer_fill,
                   audio_mutex, sessVars, resVars, decVars, pcDVars,
                   cb_len, bytes_to_copy, cb_tmp, stream,
                   histRing, auxVars, histCb, histSess>>

\* Line 42, the load of ring_buffer_fill.
CbLoadFill ==
    /\ Alive /\ pcA = "cb42"
    /\ cb_tmp' = ring_buffer_fill
    /\ pcA' = "cb42s"
    /\ UNCHANGED <<ringVars, audio_mutex, sessVars, resVars, decVars, pcDVars,
                   cb_len, bytes_to_copy, stream, histRing, auxVars, histCb,
                   histSess>>

\* Line 42, the store, and lines 44-46, the zero fill of the shortfall.
CbStoreFill ==
    /\ Alive /\ pcA = "cb42s"
    /\ ring_buffer_fill' = cb_tmp - bytes_to_copy
    /\ stream' = ZeroFill(stream, bytes_to_copy, cb_len)
    /\ pcA' = "cb48"
    /\ UNCHANGED <<ring_buffer, ring_buffer_write_pos, ring_buffer_read_pos,
                   audio_mutex, sessVars, resVars, decVars, pcDVars,
                   cb_len, bytes_to_copy, cb_tmp, histRing, auxVars, histCb,
                   histSess>>

\* Line 48: unlock and return; the device takes the buffer.
CbReturn ==
    /\ Alive /\ pcA = "cb48"
    /\ audio_mutex' = "free"
    /\ pcA' = "idle"
    /\ cb_len' = 0 /\ bytes_to_copy' = 0 /\ cb_tmp' = 0 /\ stream' = <<>>
    /\ h_fill0' = 0 /\ h_rp0' = 0
    /\ UNCHANGED <<ringVars, sessVars, resVars, decVars, pcDVars,
                   histRing, auxVars, histSess>>

-----------------------------------------------------------------------------
(* What the host (the UI, menu.cpp, not in src/) calls, and when.          *)

\* MENU --select file--> PLAYING
HostMaySelectFile == app_state = "MENU"
\* The per-tick update, the pause toggle and the scrub are driven in PLAYING.
HostMayDrive == app_state = "PLAYING"
\* The exposed cleanup() is called again from the file browser (shutdown).
HostMayCleanup == app_state = "MENU"

\* The decode context stands between two calls.
Idle == Alive /\ pcD = "idle"

\* A library call is handed a null handle: the process dies there.
Crash ==
    /\ pcD' = "crashed"
    /\ UNCHANGED <<caller, temp_buffer>>

-----------------------------------------------------------------------------
(* video_player_start, 154-159, with video_player_init, 110-152.           *)

InitOutcomes == {"open_failed", "no_streams", "codec_failed", "ok"}

\* video_player_init: the handles and the device state it leaves behind.
VideoPlayerInit(outcome, a, v) ==
    /\ outcome = "open_failed" =>
          /\ fmt_ctx' = NULL
          /\ UNCHANGED <<audio_codec_ctx, video_codec_ctx, swr_ctx, pkt,
                         frame, audio_paused>>
    /\ outcome = "no_streams" =>
          /\ fmt_ctx' = OPEN
          /\ UNCHANGED <<audio_codec_ctx, video_codec_ctx, swr_ctx, pkt,
                         frame, audio_paused>>
    /\ outcome = "codec_failed" =>
          /\ fmt_ctx' = OPEN
          /\ audio_codec_ctx' = a /\ video_codec_ctx' = v
          /\ UNCHANGED <<swr_ctx, pkt, frame, audio_paused>>
    /\ outcome = "ok" =>
          /\ fmt_ctx' = OPEN
          /\ audio_codec_ctx' = OPEN /\ video_codec_ctx' = OPEN
          /\ swr_ctx' = OPEN /\ pkt' = OPEN /\ frame' = OPEN
          /\ audio_paused' = FALSE

\* The AppState video_player_start leaves after video_player_init returned.
StateAfterStart(outcome) == "PLAYING"

VideoPlayerStart(f, outcome, a, v) ==
    /\ Idle /\ HostMaySelectFile
    /\ current_pts_seconds' = 0
    /\ VideoPlayerInit(outcome, a, v)
    /\ app_state' = StateAfterStart(outcome)
    /\ file' = f
    /\ demux_pos' = 0
    /\ h_scrubs' = "none" /\ h_pts0' = 0 /\ h_cleaned' = FALSE
    /\ h_skipped' = "none"
    /\ UNCHANGED <<ringVars, audio_mutex, playing_video, current_frame_info,
                   adec_frames, produced, pcDVars, cbVars, histRing, paceVars,
                   histScrub, histCb>>

StartOk == \E f \in Files : VideoPlayerStart(f, "ok", OPEN, OPEN)

StartFailed ==
    \E f \in Files :
       \/ VideoPlayerStart(f, "open_failed", NULL, NULL)
       \/ VideoPlayerStart(f, "no_streams", NULL, NULL)
       \/ \E a, v \in {NULL, OPEN} :
             /\ ~(a = OPEN /\ v = OPEN)
             /\ VideoPlayerStart(f, "codec_failed", a, v)

\* video_player_play, 187-189.
VideoPlayerPlay(new_state) ==
    /\ Idle /\ HostMayDrive
    /\ playing_video' = new_state
    /\ h_skipped' = "none"
    /\ UNCHANGED <<ringVars, audio_mutex, app_state, audio_paused,
                   current_pts_seconds, resVars, decVars, pcDVars, cbVars,
                   histRing, paceVars, histScrub, histCb, histSess>>

\* handle_vpad_input, main.cpp 120-135: button A toggles the flag and pauses
\* or resumes the device.
HandleVpadInput ==
    /\ Idle /\ HostMayDrive
    /\ playing_video' = ~playing_video
    /\ audio_paused' = playing_video
    /\ h_skipped' = "none"
    /\ UNCHANGED <<ringVars, audio_mutex, app_state, current_pts_seconds,
                   resVars, decVars, pcDVars, cbVars, histRing, paceVars,
                   histScrub, histCb,
                   histSess>>

-----------------------------------------------------------------------------
(* video_player_update, 199-264.                                           *)

\* Faulty variant: the paused update reads a packet all the same.
UpdatePausedReadsPacket ==
    /\ Idle /\ HostMayDrive
    /\ ~playing_video
    /\ demux_pos < file.dur
    /\ demux_pos' = demux_pos + FRAME_DT
    /\ UNCHANGED <<ringVars, audio_mutex, sessVars, resVars, file, adec_frames,
                   produced, pcDVars, cbVars, histRing, auxVars,
                   histCb, histSess>>

\* Lines 200-201.
UpdatePaused ==
    /\ Idle /\ HostMayDrive
    /\ ~playing_video
    /\ UNCHANGED vars

\* What av_read_frame is handed.
ReadHandlesOk == fmt_ctx = OPEN /\ pkt = OPEN

\* Lines 259-262: the negative read result.
EndOfStreamBranch ==
    /\ app_state' = "MENU"
    /\ pcD' = "cl_send" /\ caller' = "eos"
    /\ h_skipped' = "none"
    /\ UNCHANGED <<ringVars, audio_mutex, playing_video, audio_paused,
                   current_pts_seconds, resVars, decVars, temp_buffer, cbVars,
                   histRing, paceVars, histScrub, histCb, histSess>>

\* Line 206 with a null handle.
UpdateNullRead ==
    /\ Idle /\ HostMayDrive /\ playing_video
    /\ ~ReadHandlesOk
    /\ \/ /\ Crash
          /\ UNCHANGED <<ringVars, audio_mutex, sessVars, resVars, decVars,
                         cbVars, histRing, auxVars,
                         histCb, histSess>>
       \/ EndOfStreamBranch

\* Lines 206, 259-262.
UpdateEndOfStream ==
    /\ Idle /\ HostMayDrive /\ playing_video
    /\ ReadHandlesOk /\ AtEndOfStream(demux_pos)
    /\ EndOfStreamBranch

\* Lines 206-213, 258: an audio packet; avcodec_send_packet fails, or the
\* decoder holds k frames for the receive loop.
UpdateAudioPacket ==
    /\ Idle /\ HostMayDrive /\ playing_video
    /\ ReadHandlesOk /\ ~AtEndOfStream(demux_pos) /\ file.audio
    /\ \/ /\ h_skipped' = "send"
          /\ UNCHANGED <<adec_frames, pcDVars>>
       \/ \E k \in 0 .. MaxFrames :
             /\ adec_frames' = k
             /\ pcD' = "recv" /\ caller' = "update"
             /\ h_skipped' = "none"
             /\ UNCHANGED temp_buffer
    /\ UNCHANGED <<ringVars, audio_mutex, sessVars, resVars, file, demux_pos,
                   produced, cbVars, histRing, paceVars, histScrub, histCb,
                   histSess>>

\* Lines 206, 215-258: a video packet; the send fails or no frame comes out
\* or the frame is not YUV420P (fmt_ok false), or one frame is presented.
UpdateVideoPacket ==
    /\ Idle /\ HostMayDrive /\ playing_video
    /\ ReadHandlesOk /\ ~AtEndOfStream(demux_pos)
    /\ demux_pos' = NextFramePts(demux_pos) + FRAME_DT
    /\ \/ /\ h_skipped' = "video"
          /\ UNCHANGED <<current_pts_seconds, current_frame_info, histSess>>
       \/ /\ current_pts_seconds' = NextFramePts(demux_pos)
          /\ current_frame_info' = OPEN
          /\ h_scrubs' = "none" /\ h_pts0' = 0
          /\ h_skipped' = "none"
          /\ UNCHANGED h_cleaned
    /\ UNCHANGED <<ringVars, audio_mutex, app_state, playing_video,
                   audio_paused, fmt_ctx, audio_codec_ctx, video_codec_ctx,
                   swr_ctx, pkt, frame, file, adec_frames, produced, pcDVars,
                   cbVars, histRing, paceVars, histScrub, histCb>>

-----------------------------------------------------------------------------
(* The receive loops of lines 209-211 and 268-270 and play_audio_frame,    *)
(* 51-85.                                                                  *)

\* Faulty variant: a failing swr_convert ends the session.
AudioReceiveFrameAbortsOnFailure ==
    /\ Alive /\ pcD = "recv" /\ adec_frames > 0
    /\ adec_frames' = adec_frames - 1
    /\ app_state' = "MENU"
    /\ h_skipped' = "resample"
    /\ UNCHANGED <<ringVars, audio_mutex, playing_video, audio_paused,
                   current_pts_seconds, resVars, file, demux_pos, produced,
                   pcDVars, cbVars, histRing, paceVars, histScrub, histCb,
                   histSess>>

\* avcodec_receive_frame returns a frame; swr_convert fails (63-66), or
\* leaves data_size bytes in temp_buffer.
AudioReceiveFrame ==
    /\ Alive /\ pcD = "recv" /\ adec_frames > 0
    /\ adec_frames' = adec_frames - 1
    /\ \/ /\ h_skipped' = "resample"
          /\ UNCHANGED pcDVars
       \/ \E data \in Chunks :
             /\ temp_buffer' = data
             /\ pcD' = "push_lock"
             /\ h_skipped' = "none"
             /\ UNCHANGED caller
    /\ UNCHANGED <<ringVars, audio_mutex, sessVars, resVars, file, demux_pos,
                   produced, cbVars, histRing, paceVars, histScrub, histCb,
                   histSess>>

\* avcodec_receive_frame returns no frame: the loop ends.
AudioReceiveDone ==
    /\ Alive /\ pcD = "recv" /\ adec_frames = 0
    /\ IF caller = "update"
       THEN pcD' = "idle" /\ caller' = "none"
       ELSE pcD' = "cl_poll" /\ UNCHANGED caller
    /\ UNCHANGED <<ringVars, audio_mutex, sessVars, resVars, decVars,
                   temp_buffer, cbVars, histRing, auxVars, histCb, histSess>>

\* Line 71.
PushLock ==
    /\ Alive /\ pcD = "push_lock"
    /\ audio_mutex = "free"
    /\ audio_mutex' = "decode"
    /\ pcD' = "push_cs"
    /\ UNCHANGED <<ringVars, sessVars, resVars, decVars, caller, temp_buffer,
                   cbVars, histRing, auxVars, histCb, histSess>>

\* Lines 73-84.
PushCS ==
    /\ Alive /\ pcD = "push_cs"
    /\ PushEffect(temp_buffer)
    /\ audio_mutex' = "free"
    /\ pcD' = "recv" /\ temp_buffer' = <<>>
    /\ UNCHANGED <<ring_buffer_read_pos, sessVars, resVars, decVars, caller,
                   cbVars, histRing, auxVars, histCb, histSess>>

-----------------------------------------------------------------------------
(* video_player_scrub, 161-181.                                            *)

\* Lines 162-171: the seek.  A target outside the stream makes the demuxer
\* refuse (position kept) or stop at the nearer end.
ScrubSeek(dt) ==
    /\ Idle /\ HostMayDrive
    /\ LET target == current_pts_seconds + dt
       IN  IF fmt_ctx = NULL
           THEN /\ \/ Crash
                   \/ pcD' = "scrub_lock" /\ UNCHANGED <<caller, temp_buffer>>
                /\ UNCHANGED demux_pos
           ELSE /\ IF target \in 0 .. file.dur
                   THEN demux_pos' = SeekLanding(target, SeekFlag(dt))
                   ELSE \/ demux_pos' = demux_pos
                        \/ demux_pos' = SeekLanding(Clamp(target),
                                                    SeekFlag(dt))
                /\ pcD' = "scrub_lock"
                /\ UNCHANGED <<caller, temp_buffer>>
    /\ h_scrubs' = IF dt = 10 THEN "fwd"
                   ELSE IF dt = -10 /\ h_scrubs = "fwd" THEN "fwd_back"
                   ELSE "none"
    /\ h_pts0' = IF dt = 10 THEN current_pts_seconds ELSE h_pts0
    /\ h_seek' = [target |-> current_pts_seconds + dt, flag |-> SeekFlag(dt)]
    /\ h_order' = <<"seek">>
    /\ h_skipped' = "none"
    /\ UNCHANGED <<ringVars, audio_mutex, sessVars, resVars, file, adec_frames,
                   produced, cbVars, histRing, paceVars, histCb, h_cleaned>>

\* Line 173.
ScrubLock ==
    /\ Alive /\ pcD = "scrub_lock"
    /\ audio_mutex = "free"
    /\ audio_mutex' = "decode"
    /\ pcD' = "scrub_cs"
    /\ UNCHANGED <<ringVars, sessVars, resVars, decVars, caller, temp_buffer,
                   cbVars, histRing, auxVars, histCb, histSess>>

\* Lines 174-177.
ScrubCS ==
    /\ Alive /\ pcD = "scrub_cs"
    /\ RingReset
    /\ audio_mutex' = "free"
    /\ pcD' = "scrub_flush"
    /\ h_order' = Append(h_order, "reset")
    /\ UNCHANGED <<sessVars, resVars, decVars, caller, temp_buffer, cbVars,
                   histRing, paceVars, h_seek, h_skipped, histCb, histSess>>

\* Line 179: the audio decoder is flushed.
ScrubFlush ==
    /\ Alive /\ pcD = "scrub_flush"
    /\ adec_frames' = 0
    /\ IF audio_codec_ctx = NULL
       THEN \/ Crash
            \/ pcD' = "scrub_flush_v" /\ UNCHANGED <<caller, temp_buffer>>
       ELSE /\ pcD' = "scrub_flush_v"
            /\ UNCHANGED <<caller, temp_buffer>>
    /\ h_order' = Append(h_order, "flush_audio")
    /\ UNCHANGED <<ringVars, audio_mutex, sessVars, resVars, file, demux_pos,
                   produced, cbVars, histRing, paceVars, h_seek, h_skipped,
                   histCb,
                   histSess>>

\* Faulty variant: the scrub sets the clock to where the demuxer landed.
ScrubFlushVideoSetsClock ==
    /\ Alive /\ pcD = "scrub_flush_v"
    /\ pcD' = "idle"
    /\ current_pts_seconds' = demux_pos
    /\ h_seek' = NoSeek /\ h_order' = <<>>
    /\ UNCHANGED <<ringVars, audio_mutex, app_state, playing_video,
                   audio_paused, resVars, decVars, caller, temp_buffer,
                   cbVars, histRing, paceVars, h_skipped, histCb, histSess>>

\* Line 180: the video decoder is flushed and the call returns.
ScrubFlushVideo ==
    /\ Alive /\ pcD = "scrub_flush_v"
    /\ IF video_codec_ctx = NULL
       THEN \/ Crash
            \/ pcD' = "idle" /\ UNCHANGED <<caller, temp_buffer>>
       ELSE /\ pcD' = "idle"
            /\ UNCHANGED <<caller, temp_buffer>>
    /\ h_seek' = NoSeek /\ h_order' = <<>>
    /\ UNCHANGED <<ringVars, audio_mutex, sessVars, resVars, decVars, cbVars,
                   histRing, paceVars, h_skipped, histCb, histSess>>

-----------------------------------------------------------------------------
(* video_player_cleanup, 266-300.                                          *)

\* The host calls cleanup().
HostCleanup ==
    /\ Idle /\ HostMayCleanup
    /\ pcD' = "cl_send" /\ caller' = "host"
    /\ h_skipped' = "none"
    /\ UNCHANGED <<ringVars, audio_mutex, sessVars, resVars, decVars,
                   temp_buffer, cbVars, histRing, paceVars, histScrub,
                   histCb, histSess>>

\* main.cpp 165, 218: the process is told to stop; the main loop, which is
\* only entered after a successful init (160), is left and the drain of
\* 218-224 begins.
MainExit ==
    /\ Idle /\ HostMayDrive
    /\ ReadHandlesOk /\ audio_codec_ctx = OPEN /\ frame = OPEN
    /\ pcD' = "cl_send" /\ caller' = "quit"
    /\ h_skipped' = "none"
    /\ h_scrubs' = "none" /\ h_pts0' = 0 /\ UNCHANGED h_cleaned
    /\ UNCHANGED <<ringVars, audio_mutex, sessVars, resVars, decVars,
                   temp_buffer, cbVars, histRing, paceVars, histScrub, histCb>>

\* Line 267 (and the first avcodec_receive_frame of 268): the flush packet
\* makes the decoder emit what it still holds.
CleanupSend ==
    /\ Alive /\ pcD = "cl_send"
    /\ IF audio_codec_ctx = OPEN /\ frame = OPEN
       THEN /\ \E k \in 0 .. MaxFrames : adec_frames' = k
            /\ pcD' = "recv"
            /\ UNCHANGED <<caller, temp_buffer>>
       ELSE /\ UNCHANGED adec_frames
            /\ \/ Crash
               \/ pcD' = "cl_poll" /\ UNCHANGED <<caller, temp_buffer>>
    /\ UNCHANGED <<ringVars, audio_mutex, sessVars, resVars, file, demux_pos,
                   produced, cbVars, histRing, auxVars, histCb, histSess>>

\* Lines 271-273: one test of the drain loop, without the lock.
CleanupPoll ==
    /\ Alive /\ pcD = "cl_poll"
    /\ IF ring_buffer_fill > 0
       THEN UNCHANGED pcD
       ELSE pcD' = "cl_free"
    /\ UNCHANGED <<ringVars, audio_mutex, sessVars, resVars, decVars, caller,
                   temp_buffer, cbVars, histRing, auxVars, histCb, histSess>>

\* main.cpp 226, 100-117: the audio device is closed, which waits for a
\* running callback, the handles are freed and the process ends.
MainCleanup ==
    /\ Alive /\ pcD = "cl_free" /\ caller = "quit"
    /\ pcA = "idle"
    /\ audio_paused' = TRUE
    /\ frame' = NULL /\ pkt' = NULL /\ swr_ctx' = NULL
    /\ audio_codec_ctx' = NULL /\ video_codec_ctx' = NULL /\ fmt_ctx' = NULL
    /\ pcD' = "exited"
    /\ UNCHANGED <<ringVars, audio_mutex, app_state, playing_video,
                   current_pts_seconds, current_frame_info, decVars, caller,
                   temp_buffer, cbVars, histRing, auxVars, histCb, histSess>>

\* Lines 275-293.
CleanupFree ==
    /\ Alive /\ pcD = "cl_free" /\ caller # "quit"
    /\ current_frame_info' = NULL
    /\ frame' = NULL /\ pkt' = NULL /\ swr_ctx' = NULL
    /\ audio_codec_ctx' = NULL /\ video_codec_ctx' = NULL /\ fmt_ctx' = NULL
    /\ pcD' = "cl_294"
    /\ UNCHANGED <<ringVars, audio_mutex, sessVars, decVars, caller,
                   temp_buffer, cbVars, histRing, auxVars, histCb, histSess>>

\* Line 294, without the lock.
CleanupResetFill ==
    /\ Alive /\ pcD = "cl_294"
    /\ ring_buffer_fill' = 0
    /\ pcD' = "cl_295"
    /\ UNCHANGED <<ring_buffer, ring_buffer_write_pos, ring_buffer_read_pos,
                   audio_mutex, sessVars, resVars, decVars, caller,
                   temp_buffer, cbVars, histRing, auxVars, histCb, histSess>>

\* Line 295, without the lock.
CleanupResetReadPos ==
    /\ Alive /\ pcD = "cl_295"
    /\ ring_buffer_read_pos' = 0
    /\ pcD' = "cl_296"
    /\ UNCHANGED <<ring_buffer, ring_buffer_write_pos, ring_buffer_fill,
                   audio_mutex, sessVars, resVars, decVars, caller,
                   temp_buffer, cbVars, histRing, auxVars, histCb, histSess>>

\* Lines 296-299, without the lock.
CleanupResetWritePos ==
    /\ Alive /\ pcD = "cl_296"
    /\ ring_buffer_write_pos' = 0
    /\ pcD' = "idle" /\ caller' = "none"
    /\ h_cleaned' = TRUE
    /\ UNCHANGED <<ring_buffer, ring_buffer_read_pos, ring_buffer_fill,
                   audio_mutex, sessVars, resVars, decVars, temp_buffer,
                   cbVars, histRing, auxVars, histCb, h_scrubs, h_pts0>>

-----------------------------------------------------------------------------
AudioCallback ==
    \/ \E len \in 1 .. MaxLen : CbBegin(len)
    \/ CbLoadReadPos
    \/ CbStoreReadPos
    \/ CbLoadFill
    \/ CbStoreFill
    \/ CbReturn

Next ==
    \/ AudioCallback
    \/ StartOk
    \/ StartFailed
    \/ \E b \in BOOLEAN : VideoPlayerPlay(b)
    \/ HandleVpadInput
    \/ UpdatePaused
    \/ UpdateNullRead
    \/ UpdateEndOfStream
    \/ UpdateAudioPacket
    \/ UpdateVideoPacket
    \/ AudioReceiveFrame
    \/ AudioReceiveDone
    \/ PushLock
    \/ PushCS
    \/ \E dt \in ScrubDeltas : ScrubSeek(dt)
    \/ ScrubLock
    \/ ScrubCS
    \/ ScrubFlush
    \/ ScrubFlushVideo
    \/ HostCleanup
    \/ MainExit
    \/ MainCleanup
    \/ CleanupSend
    \/ CleanupPoll
    \/ CleanupFree
    \/ CleanupResetFill
    \/ CleanupResetReadPos
    \/ CleanupResetWritePos

Spec == Init /\ [][Next]_vars

\* The steps of video_player_scrub.
ScrubStep ==
    \/ \E dt \in ScrubDeltas : ScrubSeek(dt)
    \/ ScrubLock \/ ScrubCS \/ ScrubFlush \/ ScrubFlushVideo

\* The steps the decode context takes by itself once the host has called it.
DecodeStep ==
    \/ AudioReceiveFrame \/ AudioReceiveDone \/ PushLock \/ PushCS
    \/ ScrubLock \/ ScrubCS \/ ScrubFlush \/ ScrubFlushVideo
    \/ CleanupSend \/ CleanupPoll \/ CleanupFree \/ MainCleanup
    \/ CleanupResetFill \/ CleanupResetReadPos \/ CleanupResetWritePos

\* The audio subsystem keeps invoking the callback while the device is not
\* paused, and a call in progress runs on; the host may stop calling.
SpecFair ==
    /\ Spec
    /\ WF_vars(AudioCallback)
    /\ WF_vars(DecodeStep)


-----------------------------------------------------------------------------
(* The ring buffer's three operations as whole critical sections, fed with *)
(* a numbered stream: what one context sees of the other through the lock. *)

\* The next n bytes of the numbered stream after the first k.
StampChunk(k, n) == [i \in 1 .. n |-> Sample(k + i)]

otherVars == <<auxVars, audio_mutex, sessVars, resVars, file, demux_pos,
               adec_frames, pcDVars, pcA, cb_len, bytes_to_copy, cb_tmp,
               histCb, histSess>>

\* play_audio_frame, 71-84, with a chunk of n bytes.
RbPush(n) ==
    /\ n <= MaxProduced - produced
    /\ PushEffect(StampChunk(produced, n))
    /\ produced' = produced + n
    /\ h_pushed' = h_pushed \o StampChunk(produced, n)
    /\ h_clean' = (h_clean /\ PushFits(n, ring_buffer_fill))
    /\ stream' = <<>>
    /\ UNCHANGED <<ring_buffer_read_pos, h_pulled, h_stale, otherVars>>

\* audio_callback, 31-48, asked for len bytes; stream is what the device gets.
RbPull(len) ==
    /\ LET n == BytesToCopy(len, ring_buffer_fill)
           out == ZeroFill(RingLoad([i \in 1 .. len |-> GARBAGE], ring_buffer,
                                    ring_buffer_read_pos, n), n, len)
       IN  /\ stream' = out
           /\ ring_buffer_read_pos' = Advance(ring_buffer_read_pos, n)
           /\ ring_buffer_fill' = ring_buffer_fill - n
           /\ h_pulled' = h_pulled \o SubSeq(out, 1, n)
    /\ UNCHANGED <<ring_buffer, ring_buffer_write_pos, produced, h_pushed,
                   h_clean, h_stale, otherVars>>

\* video_player_scrub, 173-177.
RbReset ==
    /\ RingReset
    /\ h_stale' = produced
    /\ h_clean' = TRUE /\ h_pushed' = <<>> /\ h_pulled' = <<>>
    /\ stream' = <<>>
    /\ UNCHANGED <<produced, otherVars>>

NextRing ==
    \/ \E n \in 0 .. MaxChunk : RbPush(n)
    \/ \E len \in 1 .. MaxLen : RbPull(len)
    \/ RbReset

SpecRing == Init /\ [][NextRing]_vars


-----------------------------------------------------------------------------
(* The pacing of video_player_update, 203-204 and 240-252, against a       *)
(* clock.  The host stays away for some ticks between two calls; a call    *)
(* decodes the frames its packet yields, each at some cost, presents each  *)
(* and sleeps.                                                             *)

restVars == <<ringVars, audio_mutex, sessVars, resVars, decVars, pcDVars,
              cbVars, histRing, histCb, histSess, histScrub, h_skipped>>

\* The host's render tick between two update calls.
PaceHostTime(d) ==
    /\ pcP = "out"
    /\ now + d <= MaxTicks
    /\ now' = now + d
    /\ UNCHANGED <<last_frame_ticks, pcP, vframes, h_present, h_recorded,
                   h_zero_cost, h_gap, restVars>>

\* Lines 203-206: last_frame_ticks is a local set on entry; the packet read
\* is a video packet that yields k frames.
PaceUpdateEnter(k) ==
    /\ pcP = "out"
    /\ last_frame_ticks' = now
    /\ vframes' = k
    /\ pcP' = "loop"
    /\ UNCHANGED <<now, h_present, h_recorded, h_zero_cost, h_gap, restVars>>

\* Line 217: avcodec_receive_frame hands over a frame after c ticks.
PaceDecode(c) ==
    /\ pcP = "loop" /\ vframes > 0
    /\ now + c <= MaxTicks
    /\ now' = now + c
    /\ h_zero_cost' = (h_zero_cost /\ c = 0)
    /\ pcP' = "present"
    /\ UNCHANGED <<last_frame_ticks, vframes, h_present, h_recorded, h_gap,
                   restVars>>

\* Lines 240-252: the frame is presented, the loop sleeps and records the
\* time.
PacePresent ==
    /\ pcP = "present"
    /\ LET sleep == SleepTicks(now - last_frame_ticks)
       IN  /\ now + sleep <= MaxTicks
           /\ now' = now + sleep
           /\ last_frame_ticks' = now + sleep
           /\ h_recorded' = now + sleep
    /\ h_gap' = IF h_present = NoTime THEN NoTime ELSE now - h_present
    /\ h_present' = now
    /\ vframes' = vframes - 1
    /\ pcP' = "loop"
    /\ UNCHANGED <<h_zero_cost, restVars>>

\* Lines 254-258: no frame is left; the call returns and its local dies.
PaceUpdateReturn ==
    /\ pcP = "loop" /\ vframes = 0
    /\ pcP' = "out"
    /\ last_frame_ticks' = 0
    /\ UNCHANGED <<now, vframes, h_present, h_recorded, h_zero_cost, h_gap,
                   restVars>>

NextPace ==
    \/ \E d \in 1 .. MaxHostTicks : PaceHostTime(d)
    \/ \E k \in 0 .. MaxVideoFrames : PaceUpdateEnter(k)
    \/ \E c \in 0 .. MaxCost : PaceDecode(c)
    \/ PacePresent
    \/ PaceUpdateReturn

SpecPace == Init /\ [][NextPace]_vars

-----------------------------------------------------------------------------
(* Properties.                                                             *)

Min(a, b) == IF a < b THEN a ELSE b

IsPrefix(a, b) ==
    /\ Len(a) <= Len(b)
    /\ \A i \in 1 .. Len(a) : a[i] = b[i]

\* C1: under every interleaving of push, pull, scrub reset and cleanup the
\* fill counter stays within 0 .. RING_BUFFER_SIZE; a push adds the chunk's
\* length when it is accepted and nothing when it is refused; a pull takes
\* away min(len, fill), the bytes it copied, where fill is the counter's
\* value when the callback took the lock.
C1_FillBoundedAndExact ==
    /\ [](ring_buffer_fill >= 0 /\ ring_buffer_fill <= RING_BUFFER_SIZE)
    /\ [][PushCS =>
            ring_buffer_fill' = ring_buffer_fill +
               (IF Len(temp_buffer) <= RING_BUFFER_SIZE - ring_buffer_fill
                THEN Len(temp_buffer) ELSE 0)]_vars
    /\ [][CbStoreFill =>
            ring_buffer_fill' = h_fill0 - Min(cb_len, h_fill0)]_vars

\* A callback that was asked for more than was buffered has copied what there
\* was and has written the counter back.
C1_Witness ==
    /\ pcA = "cb48" /\ bytes_to_copy > 0 /\ bytes_to_copy < cb_len
    /\ ring_buffer_fill = 0

\* C2: a push is all or nothing.  A chunk of n <= capacity - fill bytes is
\* stored whole from write_pos on, wrapping at the capacity, no other cell
\* changes and write_pos advances by n modulo the capacity; a larger chunk
\* leaves the counter, both cursors and every cell as they were.
C2_PushAllOrNothing ==
    [][\A n \in 0 .. MaxChunk :
         RbPush(n) =>
            IF n <= RING_BUFFER_SIZE - ring_buffer_fill
            THEN /\ \A i \in 0 .. n - 1 :
                       ring_buffer'[(ring_buffer_write_pos + i)
                                       % RING_BUFFER_SIZE]
                          = Sample(produced + i + 1)
                 /\ \A j \in Cells :
                       (\A i \in 0 .. n - 1 :
                           j # (ring_buffer_write_pos + i) % RING_BUFFER_SIZE)
                       => ring_buffer'[j] = ring_buffer[j]
                 /\ ring_buffer_write_pos' =
                       (ring_buffer_write_pos + n) % RING_BUFFER_SIZE
                 /\ ring_buffer_read_pos' = ring_buffer_read_pos
            ELSE /\ ring_buffer' = ring_buffer
                 /\ ring_buffer_fill' = ring_buffer_fill
                 /\ ring_buffer_write_pos' = ring_buffer_write_pos
                 /\ ring_buffer_read_pos' = ring_buffer_read_pos]_vars

\* A chunk has been refused and a later one was stored across the end of the
\* array.
C2_Witness ==
    /\ ~h_clean
    /\ ring_buffer_fill > 0
    /\ ring_buffer_write_pos <= ring_buffer_read_pos
    /\ ring_buffer_write_pos > 0

\* C3: a pull asked for len bytes hands over exactly len bytes: first the
\* min(len, fill) bytes found from read_pos on, wrapping at the capacity,
\* then zeros only; read_pos advances by min(len, fill) modulo the capacity.
C3_PullExactLength ==
    [][\A len \in 1 .. MaxLen :
         RbPull(len) =>
            LET m == Min(len, ring_buffer_fill)
            IN  /\ Len(stream') = len
                /\ \A i \in 1 .. len :
                      stream'[i] =
                         IF i <= m
                         THEN ring_buffer[(ring_buffer_read_pos + i - 1)
                                             % RING_BUFFER_SIZE]
                         ELSE 0
                /\ ring_buffer_read_pos' =
                      (ring_buffer_read_pos + m) % RING_BUFFER_SIZE]_vars

\* A pull that wrapped around the end of the array and fell short: buffered
\* bytes first, then silence.
C3_Witness ==
    /\ Len(stream) = MaxLen
    /\ stream[1] > 0 /\ stream[MaxLen] = 0
    /\ ring_buffer_read_pos = 0 /\ ring_buffer_fill = 0
    /\ produced > RING_BUFFER_SIZE

\* C4: as long as no chunk was refused since the buffer was last empty by
\* construction or reset, the buffered bytes the pulls returned, in order,
\* are a prefix of the bytes pushed, in order.
C4_FifoAcrossWrap == h_clean => IsPrefix(h_pulled, h_pushed)

\* More than twice the capacity went through the buffer, nothing refused.
C4_Witness ==
    /\ h_clean
    /\ Len(h_pulled) > 2 * RING_BUFFER_SIZE

\* C5: the reset of a scrub leaves fill = 0; a pull before the next push
\* hands over zeros only; no pull after the reset hands over a byte pushed
\* before it.
C5_NoStaleAudioAfterScrub ==
    /\ [][RbReset => ring_buffer_fill' = 0]_vars
    /\ [][\A len \in 1 .. MaxLen :
            RbPull(len) =>
               /\ \A i \in 1 .. len : ~(stream'[i] \in 1 .. h_stale)
               /\ h_pushed = <<>> => \A i \in 1 .. len : stream'[i] = 0]_vars

\* A pull right after a reset that left buffered bytes in the array.
C5_Witness ==
    /\ h_stale > 0 /\ h_pushed = <<>>
    /\ \E j \in Cells : ring_buffer[j] > 0
    /\ Len(stream) = MaxLen


\* C6: every access of the decode context to ring_buffer_fill,
\* ring_buffer_read_pos, ring_buffer_write_pos or the backing array (the
\* push, the reset of a scrub, the poll and the three resets of the teardown)
\* is made while the decode context holds the audio mutex.
C6_SharedAccessUnderMutex ==
    [][(PushCS \/ ScrubCS \/ CleanupPoll \/ CleanupResetFill
          \/ CleanupResetReadPos \/ CleanupResetWritePos)
       => audio_mutex = "decode"]_vars

\* C7: when video_player_init fails (the container does not open, a stream
\* is missing, a decoder does not open) the state after video_player_start
\* is MENU.
C7_FailedStartStaysInMenu ==
    [][StartFailed => app_state' = "MENU"]_vars

\* C8: while the teardown that follows the end of the stream is still
\* waiting for the audio callback to empty the buffer (fill > 0 at the
\* poll), the state is not yet MENU.
C8_MenuOnlyAfterDrain ==
    (caller = "eos" /\ pcD = "cl_poll" /\ ring_buffer_fill > 0)
    => app_state # "MENU"

\* C9: a teardown that follows a completed teardown hands no null decoder
\* context and no null frame to the decoder.
C9_SecondCleanupUsesNoNullHandle ==
    [][(h_cleaned /\ CleanupSend)
       => (audio_codec_ctx = OPEN /\ frame = OPEN)]_vars

\* C10: after a scrub by +10 directly followed by a scrub by -10, no frame
\* presented in between, the demuxer stands within one keyframe interval of
\* the timestamp that was current before the first scrub.
C10_ScrubThereAndBack ==
    (pcD = "idle" /\ h_scrubs = "fwd_back" /\ fmt_ctx = OPEN)
    => /\ demux_pos - h_pts0 <= KEY_INT
       /\ h_pts0 - demux_pos <= KEY_INT

\* C11: between two calls of the host, in every PLAYING state the audio
\* device is paused exactly when the playing flag is false.
C11_FlagAndDeviceInStep ==
    (app_state = "PLAYING" /\ pcD = "idle")
    => (audio_paused <=> ~playing_video)

\* C12: once playback is paused in PLAYING with fill > 0, the audio callback
\* keeps draining and fill reaches 0, unless playback is unpaused first.
C12_PausedBufferDrains ==
    (app_state = "PLAYING" /\ Alive /\ ~playing_video /\ ring_buffer_fill > 0)
    ~> (ring_buffer_fill = 0 \/ playing_video \/ app_state # "PLAYING"
          \/ ~Alive)

\* C13: as long as decoding has cost no time, two consecutive presentations
\* of a video frame, in one update call or in two, lie at least
\* TicksPerFrame ticks apart.
C13_PacingLowerBound ==
    (h_zero_cost /\ h_gap # NoTime) => h_gap >= TicksPerFrame

\* Two frames presented at no decode cost, the second as early as the
\* loop lets it be.
C13_Witness ==
    /\ h_zero_cost /\ h_gap = TicksPerFrame
    /\ pcP = "loop" /\ vframes = 0

\* C14: when a frame is presented after an earlier one, the loop sleeps
\* max(0, TicksPerFrame - elapsed), where elapsed is the time since the
\* moment recorded at the earlier frame's presentation.
C14_SleepFromLastPresentedFrame ==
    [][(PacePresent /\ h_recorded # NoTime) =>
          now' - now =
             (IF now - h_recorded < TicksPerFrame
              THEN TicksPerFrame - (now - h_recorded) ELSE 0)]_vars

\* C15: for every dt, video_player_scrub calls the seek with the target
\* current_pts_seconds + dt and the hint "any frame" exactly when dt > 0,
\* "backward to the keyframe" otherwise, dt = 0 included; the seek moves the
\* demuxer before the ring buffer is reset, the reset comes before the audio
\* decoder is flushed, and the video decoder is flushed last.
C15_ScrubSeekAndOrder ==
    /\ [][\A dt \in ScrubDeltas :
            ScrubSeek(dt) =>
               /\ h_seek' = [target |-> current_pts_seconds + dt,
                             flag |-> IF dt > 0 THEN "ANY" ELSE "BACKWARD"]
               /\ (fmt_ctx = OPEN
                     /\ current_pts_seconds + dt \in 0 .. file.dur) =>
                     demux_pos' =
                        IF dt > 0 THEN current_pts_seconds + dt
                        ELSE ((current_pts_seconds + dt) \div KEY_INT)
                                * KEY_INT
               /\ UNCHANGED <<ringVars, adec_frames>>]_vars
    /\ [][ScrubCS => (h_order = <<"seek">> /\ UNCHANGED <<demux_pos,
                                                          adec_frames>>)]_vars
    /\ [][ScrubFlush => (h_order = <<"seek", "reset">>
                           /\ UNCHANGED <<demux_pos, ringVars>>)]_vars
    /\ [][ScrubFlushVideo =>
            h_order = <<"seek", "reset", "flush_audio">>]_vars

\* A scrub by 0 sought backward to the keyframe at or before the current
\* timestamp and has run to its last step.
C15_Witness ==
    /\ pcD = "scrub_flush_v"
    /\ h_seek.flag = "BACKWARD" /\ h_seek.target = current_pts_seconds
    /\ demux_pos <= h_seek.target
    /\ current_pts_seconds > 0
    /\ fmt_ctx = OPEN

\* C16: no step of video_player_scrub changes AppState, the playing flag or
\* current_pts_seconds; current_pts_seconds changes only when
\* video_player_update presents a video frame or when video_player_start
\* sets it to 0; so after a scrub by +10 has returned the clock still reads
\* what it read before the scrub.
C16_ScrubKeepsClock ==
    /\ [][ScrubStep =>
            UNCHANGED <<app_state, playing_video, current_pts_seconds>>]_vars
    /\ [][current_pts_seconds' # current_pts_seconds =>
            \/ UpdateVideoPacket
            \/ (StartOk \/ StartFailed) /\ current_pts_seconds' = 0]_vars
    /\ []((pcD = "idle" /\ h_scrubs = "fwd") => current_pts_seconds = h_pts0)

\* A scrub forward has returned: the demuxer has moved, the clock has not.
C16_Witness ==
    /\ pcD = "idle" /\ h_scrubs = "fwd" /\ fmt_ctx = OPEN
    /\ current_pts_seconds > 0
    /\ demux_pos > current_pts_seconds + FRAME_DT

\* C17: an update called while the playing flag is false reads no packet,
\* decodes nothing, pushes nothing, leaves current_pts_seconds and AppState
\* alone and does not start the teardown, at the end of the stream too: it
\* changes nothing, and every update step that reads a packet is taken with
\* the flag true.
C17_PausedUpdateDoesNothing ==
    /\ [][UpdatePaused =>
            UNCHANGED <<demux_pos, adec_frames, ringVars, temp_buffer,
                        current_pts_seconds, app_state, pcD, caller,
                        resVars>>]_vars
    /\ [][(UpdateNullRead \/ UpdateEndOfStream \/ UpdateAudioPacket
             \/ UpdateVideoPacket) => playing_video]_vars
    /\ [][(pcD = "idle" /\ app_state = "PLAYING" /\ ~playing_video
             /\ pcD' # "idle") => (ScrubStep \/ MainExit)]_vars

\* Paused at the end of the stream with audio still buffered: the update is
\* called and returns at once.
C17_Witness ==
    /\ Idle /\ app_state = "PLAYING" /\ ~playing_video
    /\ ReadHandlesOk /\ AtEndOfStream(demux_pos)
    /\ ring_buffer_fill > 0

\* The steps video_player_update takes for one packet.
UnitStep ==
    \/ UpdateAudioPacket \/ UpdateVideoPacket
    \/ caller = "update"
         /\ (AudioReceiveFrame \/ AudioReceiveDone \/ PushLock \/ PushCS)

\* C18: a failing avcodec_send_packet, a packet that yields no presentable
\* frame and a failing swr_convert push nothing and leave the ring buffer
\* and current_pts_seconds as they were; no step taken for a packet changes
\* AppState or releases a resource; after a skipped unit the update goes on
\* with the next frame or returns to read the next packet; AppState leaves
\* PLAYING only on a negative read.
C18_PacketFailuresAreSkipped ==
    /\ [][UnitStep =>
            /\ app_state' = "PLAYING" /\ pcD' # "crashed"
            /\ UNCHANGED <<fmt_ctx, audio_codec_ctx, video_codec_ctx, swr_ctx,
                           pkt, frame>>
            /\ h_skipped' # "none" =>
                  /\ UNCHANGED <<ringVars, current_pts_seconds, temp_buffer,
                                 current_frame_info>>
                  /\ pcD' \in {"idle", "recv"}]_vars
    /\ []((h_skipped = "video" /\ pcD = "idle" /\ app_state = "PLAYING")
            => (ReadHandlesOk /\ Alive))
    /\ [][(app_state = "PLAYING" /\ app_state' # "PLAYING")
            => (UpdateEndOfStream \/ UpdateNullRead)]_vars

\* A video packet was skipped right after the start: the demuxer has moved
\* on, nothing was presented and the update can be called again.
C18_Witness ==
    /\ h_skipped = "video" /\ Idle /\ app_state = "PLAYING"
    /\ playing_video /\ ReadHandlesOk
    /\ current_frame_info = NULL /\ demux_pos > 0

\* C19: the drain loop is never waiting with fill > 0 while the audio
\* device is paused.
C19_DrainNotEnteredWhilePaused ==
    (pcD = "cl_poll" /\ ring_buffer_fill > 0) => ~audio_paused

\* C20: whenever neither context is inside a call, read_pos and write_pos
\* lie in 0 .. RING_BUFFER_SIZE - 1 and write_pos = (read_pos + fill) mod
\* RING_BUFFER_SIZE; after a teardown, too, so that the next session starts
\* with read_pos = write_pos and fill = 0.
C20_CursorsConsistent ==
    (pcD = "idle" /\ pcA = "idle") =>
       /\ ring_buffer_read_pos \in Cells
       /\ ring_buffer_write_pos \in Cells
       /\ ring_buffer_write_pos =
             (ring_buffer_read_pos + ring_buffer_fill) % RING_BUFFER_SIZE

=============================================================================
